---- MODULE Spec2Model ----
(***************************************************************************)
(* Model of backend/sentiment.py: the RequestBatcher (submit and the       *)
(* _batch_worker thread), the SentimentAnalyzer (load_model and            *)
(* _predict_batch under load_lock) and the ModelChangeHandler that         *)
(* triggers reloads.                                                       *)
(*                                                                         *)
(* Threads: the batch worker (bpc), the thread that runs load_model (lpc:  *)
(* first the constructor, afterwards the watchdog observer thread), the    *)
(* callers on the event loop (Submit, CancelFuture).                       *)
(*                                                                         *)
(* Time is kept by saturating timers advanced by Tick (batcher, one tick   *)
(* is half a max_latency window) and TickWatch (watcher, one tick is half  *)
(* a second).                                                              *)
(***************************************************************************)
EXTENDS Integers, Sequences, FiniteSets, TLC

\* batch_size of the RequestBatcher (8 in the source), scaled down
BatchSize == 2
\* max_latency in ticks
MaxLatency == 2
\* number of filesystem events explored
MaxEvents == 2
\* number of submit calls explored: one more than a full batch
MaxReq == BatchSize + 1
\* reload_cooldown (2.0 s) and the settle sleep (0.5 s) in half seconds
Cooldown == 4
Settle == 1

Texts == {"good", "bad"}

VARIABLES
    \* RequestBatcher
    queue,      \* self.queue: request ids in arrival order
    nreq,       \* number of submit calls so far; requests are 1..nreq
    text,       \* text[r]: the text of request r
    fut,        \* fut[r]: the asyncio.Future of request r
    bpc,        \* position of the _batch_worker thread
    items,      \* the worker's local list items (request ids)
    ret,        \* the worker's local results (what predict_func returned)
    exc,        \* the exception e bound in the worker's except clause
    idx,        \* position of the worker's for loop over the futures
    wait,       \* ticks since the worker's current queue.get began
    \* SentimentAnalyzer
    pipeline,   \* self.pipeline: None, absent (attribute deleted) or a model
    lock,       \* holder of self.load_lock: "free", "worker" or "loader"
    phase,      \* "boot" (constructor running), "serving", "failed"
    lpc,        \* position of the thread inside load_model
    nloads,     \* number of pipelines constructed so far (model ids)
    lastLoad,   \* how the last load_model call ended: "none", "ok", "kept", "raised"
    \* ModelChangeHandler / observer thread
    events,     \* events waiting in the observer's queue
    nev,        \* number of events emitted so far
    hpc,        \* position of the observer thread in on_modified
    sinceReload,\* ticks since last_reload_time was set (saturating)
    slept,      \* ticks slept in time.sleep(0.5)
    \* history
    calls,      \* one record per predict_func invocation
    age,        \* ticks since the worker dequeued the first item of the batch
    late,       \* a submit came MaxLatency ticks or more after the first submit
    firstAge,   \* ticks since the first submit (saturating)
    pulledAt,   \* nreq when the worker made its first pull ever (0: none yet)
    resettled,  \* set_result/set_exception was called on a settled future
    prior,      \* record of the last load_model call that began with a model current
    errors,     \* number of predict calls rejected with the input error
    triggers,   \* one record per event for which on_modified set last_reload_time
    stale       \* a qualifying event occurred after the last load_model call began

vars == <<queue, nreq, text, fut, bpc, items, ret, exc, idx, wait,
          pipeline, lock, phase, lpc, nloads, lastLoad,
          events, nev, hpc, sinceReload, slept,
          calls, age, late, firstAge, pulledAt, resettled, prior,
          errors, triggers, stale>>

batcherVars == <<queue, nreq, text, fut, bpc, items, ret, exc, idx, wait>>
analyzerVars == <<pipeline, lock, phase, lpc, nloads, lastLoad>>
watcherVars == <<events, nev, hpc, sinceReload, slept>>
historyVars == <<calls, age, late, firstAge, pulledAt, resettled, prior>>
moreVars == <<errors, triggers, stale>>

Min(a, b) == IF a < b THEN a ELSE b
AgeCap == MaxLatency

\* ---------------------------------------------------------------- futures

Pending == [st |-> "pending", val |-> <<>>]
Cancelled == [st |-> "cancelled", val |-> <<>>]
WithResult(v) == [st |-> "result", val |-> v]
WithException(e) == [st |-> "exception", val |-> e]
Done(f) == f.st # "pending"

Exception(kind, k) == <<"exc", kind, k>>

\* ---------------------------------------------------------------- the model collaborator

\* the label the pipeline of model m gives text t (models differ in case)
RawLabel(m, t) ==
    IF t = "good" THEN (IF m % 2 = 1 THEN "POSITIVE" ELSE "positive")
                  ELSE (IF m % 2 = 1 THEN "NEGATIVE" ELSE "LABEL_0")

Upper(s) ==
    CASE s = "positive" -> "POSITIVE"
      [] s = "negative" -> "NEGATIVE"
      [] s = "label_0"  -> "LABEL_0"
      [] OTHER -> s

\* one entry of the list _predict_batch returns
Converted(m, t) ==
    <<"res", t, m, IF Upper(RawLabel(m, t)) = "POSITIVE" THEN "positive" ELSE "negative">>

\* what the pipeline call can do with n texts: one result per text, a list
\* that is one short or one long, or an exception
Outcomes == {"ok", "short", "long", "raise"}

Returned(m, ts, o) ==
    LET n == CASE o = "short" -> Len(ts) - 1
               [] o = "long" -> Len(ts) + 1
               [] OTHER -> Len(ts)
    IN [i \in 1..n |-> Converted(m, IF i <= Len(ts) THEN ts[i] ELSE "bad")]

\* ---------------------------------------------------------------- initial state

NoneRef == [st |-> "None", id |-> 0]
Absent == [st |-> "absent", id |-> 0]
Model(n) == [st |-> "model", id |-> n]

\* the state when __init__ has built the lock and the batcher (whose worker
\* thread is running) and is about to call load_model
Init ==
    /\ queue = <<>> /\ nreq = 0 /\ text = <<>> /\ fut = <<>>
    /\ bpc = "first" /\ items = <<>> /\ ret = <<>> /\ exc = <<>> /\ idx = 0
    /\ wait = 0
    /\ pipeline = NoneRef /\ lock = "free" /\ phase = "boot" /\ lpc = "acquire"
    /\ nloads = 0 /\ lastLoad = "none"
    /\ events = <<>> /\ nev = 0 /\ hpc = "off"
    /\ sinceReload = Cooldown + 1 /\ slept = 0
    /\ calls = <<>> /\ age = 0 /\ late = FALSE /\ firstAge = 0 /\ pulledAt = 0
    /\ resettled = FALSE
    /\ prior = [model |-> NoneRef, step |-> "none"]
    /\ errors = 0 /\ triggers = <<>> /\ stale = FALSE

\* ---------------------------------------------------------------- callers

\* RequestBatcher.submit: a new future, put on the queue, then awaited
Enqueue(t) ==
    /\ nreq < MaxReq
    /\ nreq' = nreq + 1
    /\ text' = Append(text, t)
    /\ fut' = Append(fut, Pending)
    /\ queue' = Append(queue, nreq + 1)
    /\ late' = (late \/ (nreq > 0 /\ firstAge >= MaxLatency))
    /\ UNCHANGED <<bpc, items, ret, exc, idx, wait>>
    /\ UNCHANGED <<analyzerVars, watcherVars>>
    /\ UNCHANGED <<calls, age, firstAge, pulledAt, resettled, prior>>
    /\ UNCHANGED moreVars

\* submit called on the batcher of an analyzer whose constructor has returned
Submit(t) == phase = "serving" /\ Enqueue(t)

\* submit called on the batcher while the constructor is still in its first
\* load_model, or after that load has failed: the batcher and its worker
\* exist from the line before the load_model call
SubmitEarly(t) == phase # "serving" /\ Enqueue(t)

\* the task awaiting the future in submit is cancelled: asyncio cancels the
\* future it awaits
CancelFuture(r) ==
    /\ r \in 1..nreq
    /\ fut[r].st = "pending"
    /\ fut' = [fut EXCEPT ![r] = Cancelled]
    /\ UNCHANGED <<queue, nreq, text, bpc, items, ret, exc, idx, wait>>
    /\ UNCHANGED <<analyzerVars, watcherVars, historyVars>>
    /\ UNCHANGED moreVars

\* ---------------------------------------------------------------- entry points

\* the texts a caller of an entry point may pass: the two of Texts, one with
\* surrounding blanks, the empty text and a text of blanks only
BlankTexts == {"", "  "}
AllTexts == Texts \cup {" bad "} \cup BlankTexts

\* str.strip() on the texts of AllTexts
Strip(t) ==
    CASE t \in BlankTexts -> ""
      [] t = " bad " -> "bad"
      [] OTHER -> t

\* SentimentAnalyzer.predict: "return await self.batcher.submit(text)"
AnalyzerPredict(t) == Submit(t)

\* Query.predict of app.py: "if not text.strip(): raise ValueError(...)",
\* then "await analyzer.predict(text)"
QueryPredict(t) ==
    IF Strip(t) = ""
    THEN /\ phase = "serving"
         /\ nreq + errors < MaxReq
         /\ errors' = errors + 1
         /\ UNCHANGED <<batcherVars, analyzerVars, watcherVars, historyVars>>
         /\ UNCHANGED <<triggers, stale>>
    ELSE nreq + errors < MaxReq /\ AnalyzerPredict(t)

\* ---------------------------------------------------------------- _batch_worker

\* an inner loop that takes one item too many
MoreWantedOffByOne(its) == Len(its) <= BatchSize

\* the condition of the inner while loop
MoreWanted(its) == Len(its) < BatchSize

\* a timeout that fires one tick after max_latency has passed
TimedOutLate == queue = <<>> /\ wait > MaxLatency

\* a timeout that fires one tick before max_latency has passed
TimedOutEarly == queue = <<>> /\ wait >= MaxLatency - 1

\* queue.get(timeout=max_latency) raises Empty only when the timeout has
\* passed and the queue is still empty
TimedOut == queue = <<>> /\ wait >= MaxLatency

\* a first get whose wait is not measured anew by the next get
GetFirstStaleTimer ==
    /\ bpc = "first"
    /\ queue # <<>>
    /\ items' = <<Head(queue)>>
    /\ queue' = Tail(queue)
    /\ age' = 0
    /\ pulledAt' = IF pulledAt = 0 THEN nreq ELSE pulledAt
    /\ bpc' = IF MoreWanted(items') THEN "more" ELSE "predict"
    /\ UNCHANGED <<nreq, text, fut, ret, exc, idx, wait>>
    /\ UNCHANGED <<analyzerVars, watcherVars>>
    /\ UNCHANGED <<calls, late, firstAge, resettled, prior>>
    /\ UNCHANGED moreVars

\* first queue.get of a batch returns an item
GetFirst ==
    /\ bpc = "first"
    /\ queue # <<>>
    /\ items' = <<Head(queue)>>
    /\ queue' = Tail(queue)
    /\ wait' = 0
    /\ age' = 0
    /\ pulledAt' = IF pulledAt = 0 THEN nreq ELSE pulledAt
    /\ bpc' = IF MoreWanted(items') THEN "more" ELSE "predict"
    /\ UNCHANGED <<nreq, text, fut, ret, exc, idx>>
    /\ UNCHANGED <<analyzerVars, watcherVars>>
    /\ UNCHANGED <<calls, late, firstAge, resettled, prior>>
    /\ UNCHANGED moreVars

\* first queue.get times out: continue
FirstEmpty ==
    /\ bpc = "first"
    /\ TimedOut
    /\ wait' = 0
    /\ UNCHANGED <<queue, nreq, text, fut, bpc, items, ret, exc, idx>>
    /\ UNCHANGED <<analyzerVars, watcherVars, historyVars>>
    /\ UNCHANGED moreVars

\* a further get that takes the newest item of the queue instead of the oldest
GetMoreNewest ==
    /\ bpc = "more"
    /\ queue # <<>>
    /\ items' = Append(items, queue[Len(queue)])
    /\ queue' = SubSeq(queue, 1, Len(queue) - 1)
    /\ wait' = 0
    /\ bpc' = IF MoreWanted(items') THEN "more" ELSE "predict"
    /\ UNCHANGED <<nreq, text, fut, ret, exc, idx>>
    /\ UNCHANGED <<analyzerVars, watcherVars, historyVars>>
    /\ UNCHANGED moreVars

\* a further queue.get returns an item
GetMore ==
    /\ bpc = "more"
    /\ queue # <<>>
    /\ items' = Append(items, Head(queue))
    /\ queue' = Tail(queue)
    /\ wait' = 0
    /\ bpc' = IF MoreWanted(items') THEN "more" ELSE "predict"
    /\ UNCHANGED <<nreq, text, fut, ret, exc, idx>>
    /\ UNCHANGED <<analyzerVars, watcherVars, historyVars>>
    /\ UNCHANGED moreVars

\* a further queue.get times out: break
MoreEmpty ==
    /\ bpc = "more"
    /\ TimedOut
    /\ bpc' = "predict"
    /\ UNCHANGED <<queue, nreq, text, fut, items, ret, exc, idx, wait>>
    /\ UNCHANGED <<analyzerVars, watcherVars, historyVars>>
    /\ UNCHANGED moreVars

TextsOf(its) == [i \in 1..Len(its) |-> text[its[i]]]

\* loads: the number of models built when predict_func is called; at: the
\* model self.pipeline holds when the lock is taken, model: the one it holds
\* when the pipeline call ends (0: none)
NewCall ==
    [reqs |-> items, texts |-> TextsOf(items), age |-> age, seen |-> nreq,
     out |-> "running", model |-> 0, ret |-> <<>>, err |-> <<>>,
     loads |-> nloads, at |-> 0]

\* the running call's entry when the pipeline call begins
BeginCall == [calls EXCEPT ![Len(calls)].at = pipeline.id]

\* a _predict_batch without the "is None" test of its first line
PredictCallUnchecked ==
    /\ bpc = "predict"
    /\ bpc' = "lock"
    /\ calls' = Append(calls, NewCall)
    /\ UNCHANGED <<exc, idx>>
    /\ UNCHANGED <<queue, nreq, text, fut, items, ret, wait>>
    /\ UNCHANGED <<analyzerVars, watcherVars>>
    /\ UNCHANGED <<age, late, firstAge, pulledAt, resettled, prior>>
    /\ UNCHANGED moreVars

\* predict_func(texts) is called; _predict_batch reads self.pipeline before
\* it takes the lock
PredictCall ==
    /\ bpc = "predict"
    /\ LET k == Len(calls) + 1 IN
       IF pipeline.st = "model"
       THEN /\ bpc' = "lock"
            /\ calls' = Append(calls, NewCall)
            /\ UNCHANGED <<exc, idx>>
       ELSE LET e == Exception(IF pipeline.st = "None" THEN "RuntimeError"
                                                         ELSE "AttributeError", k)
            IN /\ bpc' = "fail"
               /\ exc' = e
               /\ idx' = 1
               /\ calls' = Append(calls, [NewCall EXCEPT !.out = "raise", !.err = e])
    /\ UNCHANGED <<queue, nreq, text, fut, items, ret, wait>>
    /\ UNCHANGED <<analyzerVars, watcherVars>>
    /\ UNCHANGED <<age, late, firstAge, pulledAt, resettled, prior>>
    /\ UNCHANGED moreVars

\* a _predict_batch that calls the pipeline without taking the lock
PredictWithoutLock ==
    /\ bpc = "lock"
    /\ bpc' = "infer"
    /\ calls' = BeginCall
    /\ UNCHANGED <<queue, nreq, text, fut, items, ret, exc, idx, wait>>
    /\ UNCHANGED <<analyzerVars, watcherVars>>
    /\ UNCHANGED <<age, late, firstAge, pulledAt, resettled, prior>>
    /\ UNCHANGED moreVars

\* _predict_batch enters "with self.load_lock"
PredictAcquire ==
    /\ bpc = "lock"
    /\ lock = "free"
    /\ lock' = "worker"
    /\ bpc' = "infer"
    /\ calls' = BeginCall
    /\ UNCHANGED <<queue, nreq, text, fut, items, ret, exc, idx, wait>>
    /\ UNCHANGED <<pipeline, phase, lpc, nloads, lastLoad>>
    /\ UNCHANGED <<watcherVars>>
    /\ UNCHANGED <<age, late, firstAge, pulledAt, resettled, prior>>
    /\ UNCHANGED moreVars

\* the entry of the running call, updated when predict_func ends
EndCall(o, m, rs, e) ==
    [calls EXCEPT ![Len(calls)] =
        [@ EXCEPT !.out = o, !.model = m, !.ret = rs, !.err = e]]

\* a _predict_batch that calls the pipeline object it saw before it took
\* the lock
InferCached(o) ==
    /\ bpc = "infer"
    /\ lock' = "free"
    /\ LET m == calls[Len(calls)].loads IN
       IF o = "raise"
       THEN LET e == Exception("PipelineError", Len(calls))
            IN /\ bpc' = "fail" /\ exc' = e /\ idx' = 1 /\ ret' = <<>>
               /\ calls' = EndCall("raise", m, <<>>, e)
       ELSE LET rs == Returned(m, TextsOf(items), o)
            IN /\ bpc' = "settle" /\ ret' = rs /\ idx' = 1 /\ exc' = <<>>
               /\ calls' = EndCall("ok", m, rs, <<>>)
    /\ UNCHANGED <<queue, nreq, text, fut, items, wait>>
    /\ UNCHANGED <<pipeline, phase, lpc, nloads, lastLoad>>
    /\ UNCHANGED <<watcherVars>>
    /\ UNCHANGED <<age, late, firstAge, pulledAt, resettled, prior>>
    /\ UNCHANGED moreVars

\* self.pipeline(texts) under the lock, the conversion of its results, and
\* the release of the lock when the with block is left
Infer(o) ==
    /\ bpc = "infer"
    /\ lock' = "free"
    /\ IF pipeline.st # "model"
       THEN LET e == Exception("AttributeError", Len(calls))
            IN /\ bpc' = "fail" /\ exc' = e /\ idx' = 1 /\ ret' = <<>>
               /\ calls' = EndCall("raise", 0, <<>>, e)
       ELSE IF o = "raise"
       THEN LET e == Exception("PipelineError", Len(calls))
            IN /\ bpc' = "fail" /\ exc' = e /\ idx' = 1 /\ ret' = <<>>
               /\ calls' = EndCall("raise", pipeline.id, <<>>, e)
       ELSE LET rs == Returned(pipeline.id, TextsOf(items), o)
            IN /\ bpc' = "settle" /\ ret' = rs /\ idx' = 1 /\ exc' = <<>>
               /\ calls' = EndCall("ok", pipeline.id, rs, <<>>)
    /\ UNCHANGED <<queue, nreq, text, fut, items, wait>>
    /\ UNCHANGED <<pipeline, phase, lpc, nloads, lastLoad>>
    /\ UNCHANGED <<watcherVars>>
    /\ UNCHANGED <<age, late, firstAge, pulledAt, resettled, prior>>
    /\ UNCHANGED moreVars

\* zip(futures, results) stops at the shorter of the two
ZipLen(its, rs) == Min(Len(its), Len(rs))

\* a pairing that walks the results from the end
ResultForReversed(rs, i) == rs[Len(rs) + 1 - i]

\* the result zip pairs with the future at position i
ResultFor(rs, i) == rs[i]

\* an except clause that gives every future an exception of its own
ErrorForCopy(e, i) == Exception("Copy", i)

\* the exception the except clause gives the future at position i: e itself
ErrorFor(e, i) == e

\* one round of "for future, result in zip(...): future.set_result(result)";
\* set_result on a future that is not pending raises InvalidStateError, which
\* the except clause of the worker catches
SetResult ==
    /\ bpc = "settle"
    /\ idx <= ZipLen(items, ret)
    /\ IF fut[items[idx]].st = "pending"
       THEN /\ fut' = [fut EXCEPT ![items[idx]] = WithResult(ResultFor(ret, idx))]
            /\ idx' = idx + 1
            /\ UNCHANGED <<bpc, exc, resettled>>
       ELSE /\ resettled' = TRUE
            /\ bpc' = "fail"
            /\ exc' = Exception("InvalidStateError", Len(calls))
            /\ idx' = 1
            /\ UNCHANGED fut
    /\ UNCHANGED <<queue, nreq, text, items, ret, wait>>
    /\ UNCHANGED <<analyzerVars, watcherVars>>
    /\ UNCHANGED <<calls, age, late, firstAge, pulledAt, prior>>
    /\ UNCHANGED moreVars

\* the zip is exhausted: back to the top of "while True"
SettleDone ==
    /\ bpc = "settle"
    /\ idx > ZipLen(items, ret)
    /\ bpc' = "first"
    /\ items' = <<>> /\ ret' = <<>> /\ idx' = 0 /\ wait' = 0
    /\ UNCHANGED <<queue, nreq, text, fut, exc>>
    /\ UNCHANGED <<analyzerVars, watcherVars, historyVars>>
    /\ UNCHANGED moreVars

\* one round of "for future in futures: future.set_exception(e)" in the
\* except clause; an InvalidStateError raised here is caught by nothing and
\* ends the worker thread
SetException ==
    /\ bpc = "fail"
    /\ idx <= Len(items)
    /\ IF fut[items[idx]].st = "pending"
       THEN /\ fut' = [fut EXCEPT ![items[idx]] = WithException(ErrorFor(exc, idx))]
            /\ idx' = idx + 1
            /\ UNCHANGED <<bpc, resettled>>
       ELSE /\ resettled' = TRUE
            /\ bpc' = "dead"
            /\ UNCHANGED <<fut, idx>>
    /\ UNCHANGED <<queue, nreq, text, items, ret, exc, wait>>
    /\ UNCHANGED <<analyzerVars, watcherVars>>
    /\ UNCHANGED <<calls, age, late, firstAge, pulledAt, prior>>
    /\ UNCHANGED moreVars

\* every future of the batch was failed: back to the top of "while True"
FailDone ==
    /\ bpc = "fail"
    /\ idx > Len(items)
    /\ bpc' = "first"
    /\ items' = <<>> /\ ret' = <<>> /\ exc' = <<>> /\ idx' = 0 /\ wait' = 0
    /\ UNCHANGED <<queue, nreq, text, fut>>
    /\ UNCHANGED <<analyzerVars, watcherVars, historyVars>>
    /\ UNCHANGED moreVars

\* ---------------------------------------------------------------- load_model

\* load_model returns or raises to its caller: the constructor (which then
\* starts the watcher, or fails) or on_modified on the observer thread (an
\* exception leaves on_modified and ends that thread)
Return(how) ==
    /\ lpc' = "idle"
    /\ lock' = "free"
    /\ lastLoad' = how
    /\ IF phase = "boot"
       THEN /\ phase' = IF how = "raised" THEN "failed" ELSE "serving"
            /\ hpc' = IF how = "raised" THEN "off" ELSE "idle"
       ELSE /\ phase' = phase
            /\ hpc' = IF how = "raised" THEN "dead" ELSE "idle"

\* "with self.load_lock" is entered
LoadAcquire ==
    /\ lpc = "acquire"
    /\ lock = "free"
    /\ lock' = "loader"
    /\ lpc' = "load"
    /\ prior' = [model |-> pipeline, step |-> "none"]
    /\ UNCHANGED <<batcherVars, watcherVars>>
    /\ UNCHANGED <<pipeline, phase, nloads, lastLoad>>
    /\ UNCHANGED <<calls, age, late, firstAge, pulledAt, resettled>>
    /\ UNCHANGED moreVars

\* the tokenizer and the model are loaded from the files as they are now, or
\* one of the two loads raises
LoadFiles(r) ==
    /\ lpc = "load"
    /\ IF r = "ok"
       THEN lpc' = "del" /\ UNCHANGED prior
       ELSE lpc' = "except" /\ prior' = [prior EXCEPT !.step = r]
    /\ stale' = FALSE
    /\ UNCHANGED <<batcherVars, watcherVars>>
    /\ UNCHANGED <<pipeline, lock, phase, nloads, lastLoad>>
    /\ UNCHANGED <<calls, age, late, firstAge, pulledAt, resettled>>
    /\ UNCHANGED <<errors, triggers>>

\* "if self.pipeline is not None: del self.pipeline": the attribute is
\* removed from the object; reading an attribute removed earlier raises
\* AttributeError, which the except clause catches
LoadDel ==
    /\ lpc = "del"
    /\ CASE pipeline.st = "model" -> pipeline' = Absent /\ lpc' = "construct"
                                      /\ UNCHANGED prior
         [] pipeline.st = "None" -> pipeline' = pipeline /\ lpc' = "construct"
                                      /\ UNCHANGED prior
         [] OTHER -> pipeline' = pipeline /\ lpc' = "except"
                     /\ prior' = [prior EXCEPT !.step = "del"]
    /\ UNCHANGED <<batcherVars, watcherVars>>
    /\ UNCHANGED <<lock, phase, nloads, lastLoad>>
    /\ UNCHANGED <<calls, age, late, firstAge, pulledAt, resettled>>
    /\ UNCHANGED moreVars

\* "self.pipeline = pipeline(...)": the new pipeline is built and assigned
\* and load_model returns, or the construction raises
LoadConstruct(r) ==
    /\ lpc = "construct"
    /\ IF r = "ok"
       THEN /\ pipeline' = Model(nloads + 1)
            /\ nloads' = nloads + 1
            /\ Return("ok")
            /\ UNCHANGED prior
       ELSE /\ lpc' = "except"
            /\ prior' = [prior EXCEPT !.step = "pipeline"]
            /\ UNCHANGED <<pipeline, nloads, lock, lastLoad, phase, hpc>>
    /\ UNCHANGED <<batcherVars>>
    /\ UNCHANGED <<events, nev, sinceReload, slept>>
    /\ UNCHANGED <<calls, age, late, firstAge, pulledAt, resettled>>
    /\ UNCHANGED moreVars

\* an except clause that logs the error and never re-raises
LoadExceptSwallow ==
    /\ lpc = "except"
    /\ Return("kept")
    /\ UNCHANGED <<batcherVars>>
    /\ UNCHANGED <<pipeline, nloads>>
    /\ UNCHANGED <<events, nev, sinceReload, slept>>
    /\ UNCHANGED <<historyVars>>
    /\ UNCHANGED moreVars

\* the except clause: "if self.pipeline is None: raise"; the read of an
\* attribute that was deleted raises AttributeError out of the handler
LoadExcept ==
    /\ lpc = "except"
    /\ Return(IF pipeline.st = "model" THEN "kept" ELSE "raised")
    /\ UNCHANGED <<batcherVars>>
    /\ UNCHANGED <<pipeline, nloads>>
    /\ UNCHANGED <<events, nev, sinceReload, slept>>
    /\ UNCHANGED <<historyVars>>
    /\ UNCHANGED moreVars

\* ---------------------------------------------------------------- ModelChangeHandler

ModelFiles ==
    {"pytorch_model.bin", "tf_model.h5", "config.json", "tokenizer.json",
     "tokenizer_config.json"}

\* a path is a sequence of pieces; "name in path" holds when a piece is name
Contains(path, name) == \E i \in 1..Len(path) : path[i] = name

FsEvents ==
    { [is_directory |-> FALSE, src_path |-> <<"./model/", "config.json">>],
      [is_directory |-> FALSE, src_path |-> <<"./model/", "notes.txt">>],
      [is_directory |-> FALSE, src_path |-> <<"./model/", "config.json", ".bak">>],
      [is_directory |-> TRUE, src_path |-> <<"./model/", "checkpoint">>] }

\* the file name of a path: its pieces after the watched directory
FileName(path) == Tail(path)

\* a create/modify event on a file whose name is one of model_files
Allowed(ev) ==
    /\ ~ev.is_directory
    /\ \E f \in ModelFiles : FileName(ev.src_path) = <<f>>

\* the two outer conditions of on_modified
Qualifies(ev) ==
    /\ ~ev.is_directory
    /\ \E f \in ModelFiles : Contains(ev.src_path, f)

\* "current_time - self.last_reload_time > self.reload_cooldown"
CooledDown == sinceReload > Cooldown

\* the observer puts a create/modify event on its queue; cooled records
\* whether the cooldown since the last trigger was over when it occurred
Emit(ev) ==
    /\ hpc \notin {"off", "dead"}
    /\ nev < MaxEvents
    /\ nev' = nev + 1
    /\ events' = Append(events, [is_directory |-> ev.is_directory,
                                  src_path |-> ev.src_path,
                                  cooled |-> CooledDown])
    /\ stale' = (stale \/ Allowed(ev))
    /\ UNCHANGED <<hpc, sinceReload, slept>>
    /\ UNCHANGED <<batcherVars, analyzerVars, historyVars>>
    /\ UNCHANGED <<errors, triggers>>

\* the observer thread dispatches the next event to on_modified (on_created
\* calls on_modified): up to "self.last_reload_time = current_time"
OnModified ==
    /\ hpc = "idle"
    /\ events # <<>>
    /\ events' = Tail(events)
    /\ IF Qualifies(Head(events)) /\ CooledDown
       THEN /\ hpc' = "sleep" /\ sinceReload' = 0 /\ slept' = 0
            /\ triggers' = Append(triggers, Head(events))
       ELSE UNCHANGED <<hpc, sinceReload, slept, triggers>>
    /\ UNCHANGED nev
    /\ UNCHANGED <<batcherVars, analyzerVars, historyVars>>
    /\ UNCHANGED <<errors, stale>>

\* time.sleep(0.5) is over: self.analyzer.load_model() is called
SleepDone ==
    /\ hpc = "sleep"
    /\ slept >= Settle
    /\ hpc' = "call"
    /\ lpc' = "acquire"
    /\ UNCHANGED <<events, nev, sinceReload, slept>>
    /\ UNCHANGED <<batcherVars, historyVars>>
    /\ UNCHANGED <<pipeline, lock, phase, nloads, lastLoad>>
    /\ UNCHANGED moreVars

\* ---------------------------------------------------------------- time

\* one tick of the batcher's clock
Tick ==
    /\ wait' = IF bpc \in {"first", "more"} THEN Min(wait + 1, MaxLatency) ELSE wait
    /\ age' = IF bpc = "more" THEN Min(age + 1, AgeCap) ELSE age
    /\ firstAge' = IF nreq > 0 /\ nreq < MaxReq
                   THEN Min(firstAge + 1, MaxLatency) ELSE firstAge
    /\ <<wait', age', firstAge'>> # <<wait, age, firstAge>>
    /\ UNCHANGED <<queue, nreq, text, fut, bpc, items, ret, exc, idx>>
    /\ UNCHANGED <<analyzerVars, watcherVars>>
    /\ UNCHANGED <<calls, late, pulledAt, resettled, prior>>
    /\ UNCHANGED moreVars

\* the longest assembly time that is told apart
AssemblyCap == BatchSize * MaxLatency + 1

\* one tick of the batcher's clock when the worker thread is never late: a
\* queue.get returns as soon as an item is there and raises Empty when its
\* timeout is over, and predict_func is called as soon as the batch is made
TickTimed ==
    /\ bpc # "predict"
    /\ bpc \in {"first", "more"} => (queue = <<>> /\ ~TimedOut)
    /\ wait' = IF bpc \in {"first", "more"} THEN wait + 1 ELSE wait
    /\ age' = IF bpc = "more" THEN Min(age + 1, AssemblyCap) ELSE age
    /\ firstAge' = IF nreq > 0 /\ nreq < MaxReq
                   THEN Min(firstAge + 1, MaxLatency) ELSE firstAge
    /\ <<wait', age', firstAge'>> # <<wait, age, firstAge>>
    /\ UNCHANGED <<queue, nreq, text, fut, bpc, items, ret, exc, idx>>
    /\ UNCHANGED <<analyzerVars, watcherVars>>
    /\ UNCHANGED <<calls, late, pulledAt, resettled, prior>>
    /\ UNCHANGED moreVars

\* one tick of the watcher's clock
TickWatch ==
    /\ hpc \notin {"off", "dead"}
    /\ sinceReload' = Min(sinceReload + 1, Cooldown + 1)
    /\ slept' = IF hpc = "sleep" THEN Min(slept + 1, Settle) ELSE slept
    /\ <<sinceReload', slept'>> # <<sinceReload, slept>>
    /\ UNCHANGED <<events, nev, hpc>>
    /\ UNCHANGED <<batcherVars, analyzerVars, historyVars>>
    /\ UNCHANGED moreVars

\* one tick of the watcher's clock when the observer thread is not about to
\* run: it dispatches a queued event at once and wakes up when the sleep is over
TickWatchPrompt ==
    /\ ~(hpc = "idle" /\ events # <<>>)
    /\ ~(hpc = "sleep" /\ slept >= Settle)
    /\ TickWatch

\* ---------------------------------------------------------------- specification

\* the state when the constructor has returned: the first load_model
\* succeeded and the watcher is started
InitServing ==
    /\ queue = <<>> /\ nreq = 0 /\ text = <<>> /\ fut = <<>>
    /\ bpc = "first" /\ items = <<>> /\ ret = <<>> /\ exc = <<>> /\ idx = 0
    /\ wait = 0
    /\ pipeline = Model(1) /\ lock = "free" /\ phase = "serving" /\ lpc = "idle"
    /\ nloads = 1 /\ lastLoad = "ok"
    /\ events = <<>> /\ nev = 0 /\ hpc = "idle"
    /\ sinceReload = Cooldown + 1 /\ slept = 0
    /\ calls = <<>> /\ age = 0 /\ late = FALSE /\ firstAge = 0 /\ pulledAt = 0
    /\ resettled = FALSE
    /\ prior = [model |-> NoneRef, step |-> "none"]
    /\ errors = 0 /\ triggers = <<>> /\ stale = FALSE

WorkerNext ==
    \/ GetFirst \/ FirstEmpty \/ GetMore \/ MoreEmpty
    \/ PredictCall \/ PredictAcquire
    \/ \E o \in Outcomes : Infer(o)
    \/ SetResult \/ SettleDone \/ SetException \/ FailDone

\* the batcher of a serving analyzer: callers, the worker and the clock
NextBatch ==
    \/ \E t \in Texts : Submit(t)
    \/ \E r \in 1..MaxReq : CancelFuture(r)
    \/ GetFirst \/ FirstEmpty \/ GetMore \/ MoreEmpty
    \/ PredictCall \/ PredictAcquire
    \/ \E o \in Outcomes : Infer(o)
    \/ SetResult \/ SettleDone \/ SetException \/ FailDone
    \/ Tick

SpecBatch == InitServing /\ [][NextBatch]_vars

\* the worker thread and the clock always get to run
FairBatch == SpecBatch /\ WF_vars(WorkerNext) /\ WF_vars(Tick)

\* the batcher with a worker thread that is never late
NextTimed ==
    \/ \E t \in Texts : Submit(t)
    \/ GetFirst \/ FirstEmpty \/ GetMore \/ MoreEmpty
    \/ PredictCall \/ PredictAcquire
    \/ \E o \in {"ok", "raise"} : Infer(o)
    \/ SetResult \/ SettleDone \/ SetException \/ FailDone
    \/ TickTimed

SpecTimed == InitServing /\ [][NextTimed]_vars

\* the two entry points of a serving analyzer, called with any text
NextEntry ==
    \/ \E t \in AllTexts : QueryPredict(t)
    \/ \E t \in AllTexts : AnalyzerPredict(t)
    \/ GetFirst \/ FirstEmpty \/ GetMore \/ MoreEmpty
    \/ PredictCall \/ PredictAcquire
    \/ \E o \in {"ok", "raise"} : Infer(o)
    \/ SetResult \/ SettleDone \/ SetException \/ FailDone
    \/ Tick

SpecEntry == InitServing /\ [][NextEntry]_vars

\* the constructor's load_model with callers that reach the batcher before,
\* during and after it
NextBoot ==
    \/ (nreq < 2 /\ \E t \in Texts : SubmitEarly(t))
    \/ (nreq < 2 /\ \E t \in Texts : Submit(t))
    \/ \E r \in 1..MaxReq : CancelFuture(r)
    \/ GetFirst \/ FirstEmpty \/ GetMore \/ MoreEmpty
    \/ PredictCall \/ PredictAcquire
    \/ \E o \in {"ok", "raise"} : Infer(o)
    \/ SetResult \/ SettleDone \/ SetException \/ FailDone
    \/ LoadAcquire
    \/ \E r \in {"ok", "tokenizer", "model"} : LoadFiles(r)
    \/ LoadDel
    \/ \E r \in {"ok", "raise"} : LoadConstruct(r)
    \/ LoadExcept
    \/ Tick

SpecBoot == Init /\ [][NextBoot]_vars

\* the watcher of a serving analyzer: events, the observer thread and the
\* reloads it starts
NextWatch ==
    \/ \E ev \in FsEvents : Emit(ev)
    \/ OnModified \/ SleepDone
    \/ LoadAcquire
    \/ \E r \in {"ok", "tokenizer", "model"} : LoadFiles(r)
    \/ LoadDel
    \/ \E r \in {"ok", "raise"} : LoadConstruct(r)
    \/ LoadExcept
    \/ TickWatchPrompt

SpecWatch == InitServing /\ [][NextWatch]_vars

\* the analyzer from its construction on: load_model, the watcher and the
\* worker serving up to two requests
NextReload ==
    \/ (nreq < 2 /\ Submit("good"))
    \/ GetFirst \/ FirstEmpty \/ GetMore \/ MoreEmpty
    \/ PredictCall \/ PredictAcquire
    \/ \E o \in {"ok", "raise"} : Infer(o)
    \/ SetResult \/ SettleDone \/ SetException \/ FailDone
    \/ LoadAcquire
    \/ \E r \in {"ok", "tokenizer", "model"} : LoadFiles(r)
    \/ LoadDel
    \/ \E r \in {"ok", "raise"} : LoadConstruct(r)
    \/ LoadExcept
    \/ \E ev \in FsEvents : Allowed(ev) /\ Emit(ev)
    \/ OnModified \/ SleepDone
    \/ Tick \/ TickWatch

SpecReload == Init /\ [][NextReload]_vars

\* ---------------------------------------------------------------- helpers of the properties

\* the processing of the batch of call k is over
Processed(k) == k < Len(calls) \/ bpc \in {"first", "more", "predict", "dead"}

RECURSIVE Flatten(_)
Flatten(cs) == IF cs = <<>> THEN <<>> ELSE Flatten(SubSeq(cs, 1, Len(cs) - 1)) \o cs[Len(cs)].reqs

\* the requests the worker has dequeued for a batch it has not dispatched yet
Assembling == IF bpc \in {"more", "predict"} THEN items ELSE <<>>

NoneCancelledUpTo(k, i) == \A j \in 1..i : fut[calls[k].reqs[j]].st # "cancelled"
\* ---------------------------------------------------------------- C1

\* C1: whatever predict_func does, the worker never calls set_result or
\* set_exception on a future that is already settled, and once a batch has
\* been processed every request of it has a settled future.
C1_SettledExactlyOnce ==
    /\ ~resettled
    /\ \A k \in 1..Len(calls) :
          Processed(k) =>
              \A i \in 1..Len(calls[k].reqs) : Done(fut[calls[k].reqs[i]])

\* ---------------------------------------------------------------- C2

\* C2: with the worker scheduled fairly and a model call that always
\* returns or raises, every request submit has enqueued is eventually
\* fulfilled, whatever happened to earlier batches.
C2_EventuallyFulfilled ==
    \A r \in 1..MaxReq : (nreq >= r) ~> (nreq >= r /\ Done(fut[r]))
\* ---------------------------------------------------------------- C3

InLoadBody == lpc \in {"load", "del", "construct", "except"}
InPipelineCall == bpc = "infer"

\* C3: the body of load_model and the pipeline call of _predict_batch never
\* run at the same time: whichever of the two runs holds load_lock, so a
\* reload called during a batch waits for the inference to return and a
\* batch dispatched during a reload waits for the reload to release the lock.
C3_MutualExclusion ==
    /\ ~(InLoadBody /\ InPipelineCall)
    /\ (InLoadBody => lock = "loader")
    /\ (InPipelineCall => lock = "worker")

\* a reload was called while a batch is inside the pipeline call, and waits
C3_ReloadWaitsForBatch ==
    /\ InPipelineCall
    /\ lpc = "acquire" /\ hpc = "call"
    /\ lock = "worker"

\* ---------------------------------------------------------------- C4

\* the load_model call that began with a model current has failed and returned
FailedReloadReturned ==
    /\ lpc = "idle"
    /\ prior.model.st = "model"
    /\ prior.step # "none"

\* C4: when load_model fails at any step while a model is current, the
\* model current before the call is current after it, load_model has not
\* raised, and a batch dispatched now is served by that model.
C4_FailedReloadKeepsPrior ==
    FailedReloadReturned =>
        /\ pipeline = prior.model
        /\ lastLoad = "kept"
        /\ (bpc = "infer" => pipeline.st = "model")
\* ---------------------------------------------------------------- C5

C7_BatchBounds ==
    \A k \in 1..Len(calls) :
        /\ Len(calls[k].reqs) >= 1
        /\ Len(calls[k].reqs) <= BatchSize
        /\ \A i \in 1..Len(calls[k].reqs) : calls[k].reqs[i] \in 1..calls[k].seen

\* a full batch was dispatched while a further request was already queued,
\* and a batch of one after it
C7_FullAndPartialBatch ==
    /\ Len(calls) = 2
    /\ Len(calls[1].reqs) = BatchSize /\ calls[1].seen > BatchSize
    /\ Len(calls[2].reqs) = 1
\* ---------------------------------------------------------------- C8

\* all requests so far came within one max_latency window of the first, and
\* they are at most batch_size
OneWindow == nreq >= 1 /\ nreq <= BatchSize /\ ~late

Ceil(n, b) == (n + b - 1) \div b

\* the k-th slice of batch_size requests out of n
Slice(k, n) ==
    [i \in 1..(Min(k * BatchSize, n) - (k - 1) * BatchSize) |-> (k - 1) * BatchSize + i]

\* more than batch_size requests were all enqueued before the worker's first
\* pull, and none since
Backlog == pulledAt = nreq /\ nreq > BatchSize

\* C9: when batch_size + k requests are all enqueued before the worker pulls
\* the first of them, the i-th predict_func invocation gets the i-th
\* contiguous slice of batch_size requests of the arrival sequence (the last
\* slice the remainder), and when all requests have been dispatched there
\* have been exactly ceil((batch_size + k) / batch_size) invocations.
C9_SlicesOfBacklog ==
    Backlog =>
        /\ Len(calls) <= Ceil(nreq, BatchSize)
        /\ \A k \in 1..Len(calls) : calls[k].reqs = Slice(k, nreq)
        /\ Len(Flatten(calls)) = nreq => Len(calls) = Ceil(nreq, BatchSize)

\* a backlog of batch_size + 1 requests has been dispatched
C9_BacklogDispatched ==
    /\ Backlog /\ nreq = BatchSize + 1
    /\ Len(Flatten(calls)) = nreq
    /\ Len(calls) = 2

\* ---------------------------------------------------------------- C10

\* C10: a batch that is not full is dispatched only when max_latency has
\* passed since the worker dequeued its first request; a request that is
\* alone, with no further arrivals, is dispatched alone and once, and when
\* predict_func has returned a result for it or raised and the batch is
\* processed, its future is settled with that result or that exception
\* (unless its caller has abandoned it).
C10_LoneRequestWaits ==
    /\ \A k \in 1..Len(calls) :
          Len(calls[k].reqs) < BatchSize => calls[k].age >= MaxLatency
    /\ nreq = 1 =>
          /\ Len(calls) <= 1
          /\ Len(calls) = 1 =>
                /\ calls[1].reqs = <<1>>
                /\ (Processed(1) /\ calls[1].out = "raise") =>
                      fut[1] \in {WithException(calls[1].err), Cancelled}
                /\ (Processed(1) /\ calls[1].out = "ok" /\ Len(calls[1].ret) >= 1) =>
                      fut[1] \in {WithResult(calls[1].ret[1]), Cancelled}

\* a lone request was dispatched after the wait and holds its result
C10_LoneRequestServed ==
    /\ nreq = 1 /\ Len(calls) = 1 /\ Processed(1)
    /\ calls[1].age >= MaxLatency
    /\ fut[1].st = "result"

\* ---------------------------------------------------------------- C11

\* C11: whatever entry point a caller uses, a text that is empty or consists
\* of blanks only is never put on the queue and never passed to predict_func.
C11_BlankNeverQueued ==
    /\ \A r \in 1..nreq : Strip(text[r]) # ""
    /\ \A k \in 1..Len(calls) :
          \A i \in 1..Len(calls[k].texts) : Strip(calls[k].texts[i]) # ""

\* ---------------------------------------------------------------- C12

C13_FirstLoadFailureRaises ==
    /\ phase = "boot" =>
          /\ pipeline = NoneRef /\ nloads = 0 /\ hpc = "off"
          /\ lpc # "idle"
    /\ phase = "failed" =>
          /\ lastLoad = "raised"
          /\ pipeline = NoneRef /\ nloads = 0
          /\ lpc = "idle" /\ lock # "loader"
          /\ hpc = "off" /\ nev = 0 /\ events = <<>> /\ triggers = <<>>
    /\ phase = "serving" => nloads >= 1

\* the constructor failed because the pipeline construction raised
C13_ConstructionFailed ==
    /\ phase = "failed"
    /\ prior.step = "pipeline"

\* ---------------------------------------------------------------- C14

\* C14: an event that occurred while the cooldown since the last trigger was
\* still running never triggers a load_model call of its own, however long
\* the sleep and the load take; and load_model is called only when the
\* settle sleep is over.
C14_BurstOneReload ==
    /\ \A i \in 1..Len(triggers) : triggers[i].cooled
    /\ hpc = "call" => slept >= Settle

\* ---------------------------------------------------------------- C15

\* C15: the worker thread reads self.pipeline only while it holds load_lock,
\* the test of _predict_batch's first line included.
C15_ReadsUnderLock ==
    [][(bpc = "predict" /\ bpc' # "predict") => lock = "worker"]_vars

\* what C15 concludes from it: the test never meets the attribute that a
\* running load_model has removed and not yet assigned again
C15_NeverSeesRemoved ==
    [][(bpc = "predict" /\ bpc' # "predict") =>
          ~(lock = "loader" /\ lpc = "construct" /\ pipeline = Absent)]_vars

\* ---------------------------------------------------------------- C16

\* C16: while the pipeline call of a batch runs, the worker holds the lock
\* and self.pipeline is what it was when the call began; a model it holds is
\* the one the latest successful load_model built. A pipeline call that ran
\* on a model ran on that one model from its start to its end, all its
\* results come from it, and it is no older than the model that was current
\* when predict_func was called for the batch.
C16_RunsOnCurrentModel ==
    /\ bpc = "infer" =>
          /\ lock = "worker"
          /\ calls[Len(calls)].at = pipeline.id
          /\ pipeline.st = "model" => pipeline.id = nloads
    /\ \A k \in 1..Len(calls) :
          calls[k].model # 0 =>
              /\ calls[k].model = calls[k].at
              /\ calls[k].model >= calls[k].loads
              /\ calls[k].model <= nloads
              /\ \A i \in 1..Len(calls[k].ret) : calls[k].ret[i][3] = calls[k].model

\* a batch dispatched under model 1 waited for a reload and ran on model 2
C16_RanOnReloadedModel ==
    \E k \in 1..Len(calls) :
        /\ calls[k].out = "ok"
        /\ calls[k].loads = 1 /\ calls[k].model = 2

\* ---------------------------------------------------------------- C17

\* C17: whatever fails while a batch is processed (predict_func raising, or
\* a write into one of its futures), the worker thread goes on to the next
\* batch, and no request is dispatched in two batches.
C17_WorkerSurvivesFailure ==
    /\ bpc # "dead"
    /\ LET all == Flatten(calls) IN
          \A i, j \in 1..Len(all) : all[i] = all[j] => i = j

\* ---------------------------------------------------------------- C18

\* C18: on_modified sets last_reload_time and goes on to call load_model
\* only for an event on a file (not a directory) whose name is one of
\* model_files.
C18_OnlyAllowListedTrigger ==
    \A i \in 1..Len(triggers) : Allowed(triggers[i])

\* ---------------------------------------------------------------- C19

\* C19: when the observer thread has handled every event and no load is
\* running, no event on a model file is newer than the last load_model call
\* that read the files: an event that arrived inside the cooldown was not
\* lost.
C19_FreshWhenQuiet ==
    (events = <<>> /\ hpc = "idle" /\ lpc = "idle") => ~stale

\* ---------------------------------------------------------------- C20

====
